---- MODULE Spec2Model ----
(***************************************************************************)
(* The TDM scheduler of net/mptcp/mptcp_tdm.c as a state machine.          *)
(*                                                                         *)
(* State: the two module parameters, the per-subflow quota (the only state *)
(* the scheduler owns), the transport state of every subflow and of the    *)
(* meta socket (owned by the TCP/MPTCP stack, changed by the environment   *)
(* between scheduler calls), the heads of the two queues, and the outcome  *)
(* of the last scheduler call (its out-parameters and its locals at the    *)
(* return).  A scheduler call runs under the meta socket lock, so it is    *)
(* one atomic action.                                                      *)
(***************************************************************************)
EXTENDS Integers, Sequences, FiniteSets, TLC

VARIABLES
    num_segments,    \* module parameter, line 6
    cwnd_limited,    \* module parameter, line 10
    quota,           \* tdmsched_priv.quota of every subflow
    sub,             \* transport state of every subflow (tcp_sock, mptcp_tcp_sock)
    meta,            \* meta socket / mpcb fields the scheduler reads
    reinject_queue,  \* head of mpcb->reinject_queue (skb_peek), or NoSkb
    send_head,       \* tcp_send_head(meta_sk), or NoSkb
    ret,             \* outcome of the last scheduler call, Idle after the caller consumed it
    last_sk,         \* subflow of the last decision on a send-queue skb (history)
    pinned           \* a subflow the environment keeps available (0: none)

vars == <<num_segments, cwnd_limited, quota, sub, meta, reinject_queue, send_head, ret,
          last_sk, pinned>>

----------------------------------------------------------------------------
(* Bounds of the model. *)

NumPaths == 2        \* subflows of the connection, in mptcp_for_each_sub order
MaxR == 3            \* num_segments ranges over 1..MaxR in Spec
MaxLen == 3          \* skb->len ranges over 1..MaxLen
MaxQuota == 6        \* a call is not made once a quota passed this (only reached with a huge num_segments)

Paths == 1..NumPaths

\* The path_index of the i-th subflow of the list.
PathIndex(i) == i

\* NULL sock pointer.
NoSk == 0

\* NULL skb pointer.
NoSkb == [valid |-> FALSE, len |-> 0, seq |-> 0, path_mask |-> {}, data_fin |-> FALSE]

Skb(len, seq, mask, fin) ==
    [valid |-> TRUE, len |-> len, seq |-> seq, path_mask |-> mask, data_fin |-> fin]

----------------------------------------------------------------------------
(* Transport states of a subflow the environment moves between.  Each is    *)
(* the fully usable subflow with the fields of one check of                *)
(* mptcp_tdm_is_available changed.                                         *)

Good(i) ==
    [curr_tdn |-> PathIndex(i) - 1,
     can_send |-> TRUE, pre_established |-> FALSE, pf |-> FALSE,
     ca_state |-> "Open", is_reno |-> TRUE, snd_una |-> 0, high_seq |-> 0,
     fully_established |-> TRUE, second_packet |-> FALSE, last_end_data_seq |-> 0,
     packets_in_flight |-> 0, snd_cwnd |-> 2, mss_cache |-> 2,
     write_seq |-> 0, snd_nxt |-> 0, snd_wnd |-> 4]

Subflow(i, kind) ==
    CASE kind = "good"      -> Good(i)
      [] kind = "good3"     -> [Good(i) EXCEPT !.mss_cache = 3, !.ca_state = "Loss"]
      [] kind = "good1460"  -> [Good(i) EXCEPT !.mss_cache = 1460, !.snd_wnd = 65535]
      [] kind = "tdn"       -> [Good(i) EXCEPT !.curr_tdn = PathIndex(i) % NumPaths]
      [] kind = "nosend"    -> [Good(i) EXCEPT !.can_send = FALSE]
      [] kind = "preest"    -> [Good(i) EXCEPT !.pre_established = TRUE]
      [] kind = "pf"        -> [Good(i) EXCEPT !.pf = TRUE]
      [] kind = "loss_sack" -> [Good(i) EXCEPT !.ca_state = "Loss", !.is_reno = FALSE]
      [] kind = "loss_rto"  -> [Good(i) EXCEPT !.ca_state = "Loss", !.high_seq = 1]
      [] kind = "order"     -> [Good(i) EXCEPT !.fully_established = FALSE,
                                               !.second_packet = TRUE,
                                               !.last_end_data_seq = 1]
      [] kind = "inorder"   -> [Good(i) EXCEPT !.fully_established = FALSE,
                                               !.second_packet = TRUE]
      [] kind = "cwnd"      -> [Good(i) EXCEPT !.packets_in_flight = 2]
      [] kind = "queued"    -> [Good(i) EXCEPT !.packets_in_flight = 1, !.write_seq = 3]
      [] kind = "zwnd"      -> [Good(i) EXCEPT !.write_seq = 4]

----------------------------------------------------------------------------
(* mptcp_tdm_is_available, lines 24-96. *)

\* before(seq1, seq2) of the TCP stack, for sequence numbers far from the wrap.
before(seq1, seq2) == seq1 < seq2

\* tcp_wnd_end(tp)
tcp_wnd_end(tp) == tp.snd_una + tp.snd_wnd

\* mptcp_tdm_is_available without the return of line 37: the TDN mismatch
\* is only logged.
mptcp_tdm_is_available_NoTdn(tp, path_index, skb, zero_wnd_test, cwnd_test) ==
    IF ~tp.can_send THEN FALSE
    ELSE IF tp.pre_established THEN FALSE
    ELSE IF tp.pf THEN FALSE
    ELSE IF tp.ca_state = "Loss" /\ (~tp.is_reno \/ tp.snd_una # tp.high_seq) THEN FALSE
    ELSE IF ~tp.fully_established /\ skb.valid /\ tp.second_packet
            /\ tp.last_end_data_seq # skb.seq THEN FALSE
    ELSE IF cwnd_test /\ tp.packets_in_flight >= tp.snd_cwnd THEN FALSE
    ELSE IF cwnd_test
            /\ tp.write_seq - tp.snd_nxt
                 > (tp.snd_cwnd - tp.packets_in_flight) * tp.mss_cache THEN FALSE
    ELSE IF zero_wnd_test /\ ~before(tp.write_seq, tcp_wnd_end(tp)) THEN FALSE
    ELSE TRUE

mptcp_tdm_is_available(tp, path_index, skb, zero_wnd_test, cwnd_test) ==
    IF tp.curr_tdn # path_index - 1 THEN FALSE
    ELSE IF ~tp.can_send THEN FALSE
    ELSE IF tp.pre_established THEN FALSE
    ELSE IF tp.pf THEN FALSE
    ELSE IF tp.ca_state = "Loss" /\ (~tp.is_reno \/ tp.snd_una # tp.high_seq) THEN FALSE
    ELSE IF ~tp.fully_established /\ skb.valid /\ tp.second_packet
            /\ tp.last_end_data_seq # skb.seq THEN FALSE
    ELSE IF cwnd_test /\ tp.packets_in_flight >= tp.snd_cwnd THEN FALSE
    ELSE IF cwnd_test
            /\ tp.write_seq - tp.snd_nxt
                 > (tp.snd_cwnd - tp.packets_in_flight) * tp.mss_cache THEN FALSE
    ELSE IF zero_wnd_test /\ ~before(tp.write_seq, tcp_wnd_end(tp)) THEN FALSE
    ELSE TRUE

\* The check applied to the i-th subflow of the connection.
Available(i, skb, zero_wnd_test, cwnd_test) ==
    mptcp_tdm_is_available(sub[i], PathIndex(i), skb, zero_wnd_test, cwnd_test)

----------------------------------------------------------------------------
(* mptcp_tdm_dont_reinject_skb, lines 99-108: mptcp_pi_to_flag(path_index) *)
(* is a bit of path_mask, modelled as membership in a set of path indices. *)

\* mptcp_tdm_dont_reinject_skb that never finds the skb in the path_mask.
mptcp_tdm_dont_reinject_skb_Never(path_index, skb) == FALSE

mptcp_tdm_dont_reinject_skb(path_index, skb) ==
    skb.valid /\ path_index \in skb.path_mask

----------------------------------------------------------------------------
(* tdm_get_available_subflow, lines 111-162.  Returns the sock and the     *)
(* skb as the call leaves it (its path_mask may be restarted).             *)

\* The largest element of a non-empty set of list positions.
Last(S) == CHOOSE i \in S : \A j \in S : j <= i

\* The smallest element of a non-empty set of list positions.
First(S) == CHOOSE i \in S : \A j \in S : i <= j

\* lines 120-129: the subflows the data_fin loop would return.
DfinSubflows(skb, zero_wnd_test) ==
    IF meta.rcv_shutdown /\ skb.valid /\ skb.data_fin
    THEN {i \in Paths : PathIndex(i) = meta.dfin_path_index
                        /\ Available(i, skb, zero_wnd_test, TRUE)}
    ELSE {}

\* lines 132-148: the subflows that set bestsk, and those that set backupsk.
BestSubflows(skb, zero_wnd_test) ==
    {i \in Paths : Available(i, skb, zero_wnd_test, TRUE)
                   /\ ~mptcp_tdm_dont_reinject_skb(PathIndex(i), skb)}

BackupSubflows(skb, zero_wnd_test) ==
    {i \in Paths : Available(i, skb, zero_wnd_test, TRUE)
                   /\ mptcp_tdm_dont_reinject_skb(PathIndex(i), skb)}

\* lines 150-161: sk still holds the last subflow of the loop when neither
\* bestsk nor backupsk was set.
tdm_get_available_subflow(skb, zero_wnd_test) ==
    LET dfin   == DfinSubflows(skb, zero_wnd_test)
        best   == BestSubflows(skb, zero_wnd_test)
        backup == BackupSubflows(skb, zero_wnd_test)
    IN  IF dfin # {} THEN [sk |-> First(dfin), skb |-> skb]
        ELSE IF best # {} THEN [sk |-> Last(best), skb |-> skb]
        ELSE IF backup # {}
             THEN [sk |-> Last(backup),
                   skb |-> IF skb.valid THEN [skb EXCEPT !.path_mask = {}] ELSE skb]
        ELSE [sk |-> Last(Paths), skb |-> skb]

----------------------------------------------------------------------------
(* __mptcp_tdm_next_segment, lines 172-190: the skb and *reinject. *)

\* __mptcp_tdm_next_segment that looks at the send queue first.
__mptcp_tdm_next_segment_SendFirst ==
    IF meta.infinite_mapping_snd \/ meta.send_infinite_mapping \/ send_head.valid
    THEN [skb |-> send_head, reinject |-> 0]
    ELSE [skb |-> reinject_queue, reinject |-> IF reinject_queue.valid THEN 1 ELSE 0]

\* __mptcp_tdm_next_segment without the fallback test of lines 181-182.
__mptcp_tdm_next_segment_NoFallback ==
    IF reinject_queue.valid
    THEN [skb |-> reinject_queue, reinject |-> 1]
    ELSE [skb |-> send_head, reinject |-> 0]

__mptcp_tdm_next_segment ==
    IF meta.infinite_mapping_snd \/ meta.send_infinite_mapping
    THEN [skb |-> send_head, reinject |-> 0]
    ELSE IF reinject_queue.valid
         THEN [skb |-> reinject_queue, reinject |-> 1]
         ELSE [skb |-> send_head, reinject |-> 0]

----------------------------------------------------------------------------
(* Unsigned 32-bit arithmetic of `*limit = split * mss_now`, line 284.      *)
(* A 32-bit value is the pair <<high 16 bits, low 16 bits>>; the factors    *)
(* are an int (split) and an unsigned below 2^16 (an MSS).                  *)

\* The exact product a * b for 0 <= a < 2^31 and 0 <= b < 2^16, as three
\* 16-bit limbs <<top, high, low>>.
Product(a, b) ==
    LET ah == a \div 65536
        al == a % 65536
        bh == b \div 256
        bl == b % 256
        p1 == al * bh
        low == (p1 % 256) * 256 + al * bl
        mid == (p1 \div 256) + (low \div 65536) + ah * b
    IN  <<mid \div 65536, mid % 65536, low % 65536>>

\* (unsigned int)split * mss_now: the product modulo 2^32.  A negative
\* split converts to split + 2^32, whose product with b has the low 32 bits
\* of 2^32 * b - |split| * b.
U32Mul(split, mss_now) ==
    IF split >= 0
    THEN LET p == Product(split, mss_now) IN <<p[2], p[3]>>
    ELSE LET p == Product(-split, mss_now)
             lo == (65536 - p[3]) % 65536
             borrow == IF p[3] = 0 THEN 0 ELSE 1
         IN  <<(65536 - p[2] - borrow) % 65536 , lo>>

\* A number below 2^31 as a 32-bit value.
U32(n) == <<n \div 65536, n % 65536>>

\* DIV_ROUND_UP(n, d)
DIV_ROUND_UP(n, d) == (n + d - 1) \div d

\* tcp_current_mss(sk): the cached MSS of the subflow.
tcp_current_mss(i) == sub[i].mss_cache

----------------------------------------------------------------------------
(* mptcp_tdm_next_segment, lines 192-295. *)

\* ScanBody that keeps the first unused subflow instead of the last one.
ScanBody_FirstIdle(st, i, q, skb) ==
    IF ~Available(i, skb, FALSE, cwnd_limited) THEN st
    ELSE LET s1 == [st EXCEPT !.iter = (st.iter + 1) % 256]
         IN  IF q[i] > 0 /\ q[i] < num_segments
             THEN [s1 EXCEPT !.split = num_segments - q[i], !.choose_sk = i,
                             !.found = TRUE]
             ELSE LET s2 == IF q[i] = 0 /\ s1.choose_sk = NoSk
                            THEN [s1 EXCEPT !.split = num_segments, !.choose_sk = i]
                            ELSE s1
                  IN  IF q[i] >= num_segments
                      THEN [s2 EXCEPT !.full_subs = (s2.full_subs + 1) % 256]
                      ELSE s2

\* ScanBody without the goto of line 236: the scan goes on after a subflow
\* that is being used.
ScanBody_NoGoto(st, i, q, skb) ==
    IF ~Available(i, skb, FALSE, cwnd_limited) THEN st
    ELSE LET s1 == [st EXCEPT !.iter = (st.iter + 1) % 256]
         IN  IF q[i] > 0 /\ q[i] < num_segments
             THEN [s1 EXCEPT !.split = num_segments - q[i], !.choose_sk = i]
             ELSE LET s2 == IF q[i] = 0
                            THEN [s1 EXCEPT !.split = num_segments, !.choose_sk = i]
                            ELSE s1
                  IN  IF q[i] >= num_segments
                      THEN [s2 EXCEPT !.full_subs = (s2.full_subs + 1) % 256]
                      ELSE s2

\* ScanBody with a subflow whose quota equals the round size still taken as
\* being used (<= for < at line 233).
ScanBody_Le(st, i, q, skb) ==
    IF ~Available(i, skb, FALSE, cwnd_limited) THEN st
    ELSE LET s1 == [st EXCEPT !.iter = (st.iter + 1) % 256]
         IN  IF q[i] > 0 /\ q[i] <= num_segments
             THEN [s1 EXCEPT !.split = num_segments - q[i], !.choose_sk = i,
                             !.found = TRUE]
             ELSE LET s2 == IF q[i] = 0
                            THEN [s1 EXCEPT !.split = num_segments, !.choose_sk = i]
                            ELSE s1
                  IN  IF q[i] >= num_segments
                      THEN [s2 EXCEPT !.full_subs = (s2.full_subs + 1) % 256]
                      ELSE s2

\* One iteration of the loop of lines 221-248 on subflow i.  st holds the
\* locals iter, full_subs, split, choose_sk, and found (the goto of line 236).
ScanBody(st, i, q, skb) ==
    IF ~Available(i, skb, FALSE, cwnd_limited) THEN st
    ELSE LET s1 == [st EXCEPT !.iter = (st.iter + 1) % 256]
         IN  IF q[i] > 0 /\ q[i] < num_segments
             THEN [s1 EXCEPT !.split = num_segments - q[i], !.choose_sk = i,
                             !.found = TRUE]
             ELSE LET s2 == IF q[i] = 0
                            THEN [s1 EXCEPT !.split = num_segments, !.choose_sk = i]
                            ELSE s1
                  IN  IF q[i] >= num_segments
                      THEN [s2 EXCEPT !.full_subs = (s2.full_subs + 1) % 256]
                      ELSE s2

RECURSIVE Scan(_, _, _, _)
Scan(st, i, q, skb) ==
    IF i > NumPaths \/ st.found THEN st
    ELSE CHOOSE r \in {Scan(s, i + 1, q, skb) : s \in {ScanBody(st, i, q, skb)}} : TRUE

\* ResetQuota with the quota restarted at the round size instead of 0.
ResetQuota_ToRound(q, skb) ==
    [i \in Paths |-> IF Available(i, skb, FALSE, cwnd_limited) THEN num_segments ELSE q[i]]

\* ResetQuota without the availability test of lines 262-264.
ResetQuota_All(q, skb) == [i \in Paths |-> 0]

\* lines 257-267: restart the round.
ResetQuota(q, skb) ==
    [i \in Paths |-> IF Available(i, skb, FALSE, cwnd_limited) THEN 0 ELSE q[i]]

\* line 253
AllFull(st) == st.iter # 0 /\ st.iter = st.full_subs

\* lines 218-270: scan, and restart the round and scan again (goto retry)
\* while every considered subflow is full.  lp carries the locals, the
\* quotas, and the counts of scans and of restarts made by this call.  At
\* most `passes` passes are made here; again tells that the loop goes on.
\* The result of a scan and the locals of a pass are bound as elements of a
\* singleton set (x \in {e}), which evaluates each of them once.
RECURSIVE RetryPasses(_, _, _)
RetryPasses(lp, skb, passes) ==
    CHOOSE r \in
      { LET after == [iter |-> st.iter, full_subs |-> st.full_subs, split |-> st.split,
                      choose_sk |-> st.choose_sk, quota |-> lp.quota,
                      scans |-> lp.scans + 1, resets |-> lp.resets, again |-> FALSE]
        IN  IF ~st.found /\ AllFull(st)
            THEN CHOOSE t \in
                   { IF passes > 1 THEN RetryPasses(restarted, skb, passes - 1)
                     ELSE restarted :
                       restarted \in {[after EXCEPT !.quota = ResetQuota(lp.quota, skb),
                                                    !.resets = lp.resets + 1,
                                                    !.again = TRUE]} } : TRUE
            ELSE after :
          st \in {Scan([iter |-> lp.iter, full_subs |-> lp.full_subs, split |-> lp.split,
                        choose_sk |-> lp.choose_sk, found |-> FALSE], 1, lp.quota, skb)} } : TRUE

\* The loop, evaluated sixteen passes at a time.
RECURSIVE Retry(_, _)
Retry(lp, skb) ==
    CHOOSE r \in {IF s.again THEN Retry(s, skb) ELSE s : s \in {RetryPasses(lp, skb, 16)}} : TRUE

\* QuotaIncrement that charges nothing for a skb.
QuotaIncrement_None(len, mss_now) == 0

\* lines 286-289
QuotaIncrement(len, mss_now) ==
    IF len > mss_now THEN DIV_ROUND_UP(len, mss_now) ELSE 1

\* What a call leaves behind: the operation and its arguments (arg names
\* the skb passed to get_subflow), the returned skb, the out-parameters and
\* the locals at the return.
Outcome(op, arg, zero_wnd_test, skb, reinject, subsk, limit, lp) ==
    [op |-> op, arg |-> arg, zero_wnd_test |-> zero_wnd_test,
     skb |-> skb, reinject |-> reinject, subsk |-> subsk, limit |-> limit,
     iter |-> lp.iter, full_subs |-> lp.full_subs, split |-> lp.split,
     choose_sk |-> lp.choose_sk, scans |-> lp.scans, resets |-> lp.resets]

\* The locals as declared at lines 198-202.
Locals ==
    [iter |-> 0, full_subs |-> 0, split |-> num_segments, choose_sk |-> NoSk,
     quota |-> quota, scans |-> 0, resets |-> 0, again |-> FALSE]

\* No call is being reported.
NoLocals ==
    [iter |-> 0, full_subs |-> 0, split |-> 0, choose_sk |-> NoSk, scans |-> 0, resets |-> 0]

Idle == Outcome("idle", "none", FALSE, NoSkb, 0, NoSk, U32(0), NoLocals)

\* The outcome of a call of next_segment.
Returned(skb, reinject, subsk, limit, lp) ==
    Outcome("next_segment", "none", FALSE, skb, reinject, subsk, limit, lp)

\* Found without the check of lines 278-280.
Found_NoRecheck(skb, lp) ==
    IF lp.choose_sk # NoSk
    THEN LET mss_now == tcp_current_mss(lp.choose_sk)
         IN  /\ ret' = Returned(skb, 0, lp.choose_sk, U32Mul(lp.split, mss_now), lp)
             /\ quota' = [lp.quota EXCEPT ![lp.choose_sk] =
                              @ + QuotaIncrement(skb.len, mss_now)]
             /\ last_sk' = lp.choose_sk
    ELSE /\ ret' = Returned(NoSkb, 0, NoSk, U32(0), lp)
         /\ quota' = lp.quota
         /\ UNCHANGED last_sk

\* Found with the zero-window test switched on in the check of lines 278-279.
Found_ZeroWnd(skb, lp) ==
    IF lp.choose_sk # NoSk
    THEN IF ~Available(lp.choose_sk, skb, TRUE, TRUE)
         THEN /\ ret' = Returned(NoSkb, 0, NoSk, U32(0), lp)
              /\ quota' = lp.quota
              /\ UNCHANGED last_sk
         ELSE LET mss_now == tcp_current_mss(lp.choose_sk)
              IN  /\ ret' = Returned(skb, 0, lp.choose_sk, U32Mul(lp.split, mss_now), lp)
                  /\ quota' = [lp.quota EXCEPT ![lp.choose_sk] =
                                   @ + QuotaIncrement(skb.len, mss_now)]
                  /\ last_sk' = lp.choose_sk
    ELSE /\ ret' = Returned(NoSkb, 0, NoSk, U32(0), lp)
         /\ quota' = lp.quota
         /\ UNCHANGED last_sk

\* lines 272-294
Found(skb, lp) ==
    IF lp.choose_sk # NoSk
    THEN IF ~Available(lp.choose_sk, skb, FALSE, TRUE)
         THEN /\ ret' = Returned(NoSkb, 0, NoSk, U32(0), lp)
              /\ quota' = lp.quota
              /\ UNCHANGED last_sk
         ELSE LET mss_now == tcp_current_mss(lp.choose_sk)
              IN  /\ ret' = Returned(skb, 0, lp.choose_sk, U32Mul(lp.split, mss_now), lp)
                  /\ quota' = [lp.quota EXCEPT ![lp.choose_sk] =
                                   @ + QuotaIncrement(skb.len, mss_now)]
                  /\ last_sk' = lp.choose_sk
    ELSE /\ ret' = Returned(NoSkb, 0, NoSk, U32(0), lp)
         /\ quota' = lp.quota
         /\ UNCHANGED last_sk

\* lines 200-216, then the quota selection.
NextSegment ==
    /\ \A i \in Paths : quota[i] <= MaxQuota
    /\ LET next == __mptcp_tdm_next_segment
           skb == next.skb
       IN  IF ~skb.valid
           THEN /\ ret' = Returned(NoSkb, next.reinject, NoSk, U32(0), Locals)
                /\ UNCHANGED <<quota, reinject_queue, last_sk>>
           ELSE IF next.reinject = 1
           THEN LET got == tdm_get_available_subflow(skb, FALSE)
                IN  /\ ret' = Returned(IF got.sk = NoSk THEN NoSkb ELSE got.skb,
                                       1, got.sk, U32(0), Locals)
                    /\ reinject_queue' = got.skb
                    /\ UNCHANGED <<quota, last_sk>>
           ELSE /\ \E lp \in {Retry(Locals, skb)} : Found(skb, lp)
                /\ UNCHANGED reinject_queue
    /\ UNCHANGED <<num_segments, cwnd_limited, sub, meta, send_head, pinned>>

\* The get_subflow operation (line 298) called on its own, with the skb at
\* the head of a queue or with no skb.
GetSubflow ==
    \E arg \in {"reinject", "send", "null"}, zero_wnd_test \in BOOLEAN :
       LET skb == CASE arg = "reinject" -> reinject_queue
                    [] arg = "send"     -> send_head
                    [] arg = "null"     -> NoSkb
           got == tdm_get_available_subflow(skb, zero_wnd_test)
       IN  /\ arg # "null" => skb.valid
           /\ ret' = Outcome("get_subflow", arg, zero_wnd_test, skb, 0, got.sk,
                             U32(0), NoLocals)
           /\ reinject_queue' = IF arg = "reinject" THEN got.skb ELSE reinject_queue
           /\ send_head' = IF arg = "send" THEN got.skb ELSE send_head
           /\ UNCHANGED <<num_segments, cwnd_limited, quota, sub, meta, pinned, last_sk>>

----------------------------------------------------------------------------
(* The environment: the TCP/MPTCP stack changes what the scheduler reads   *)
(* between two calls, and the caller has consumed the last outcome.        *)

\* last_sk is forgotten once that subflow fails the check of lines 278-279:
\* it names the last selected subflow only while it has stayed available.
StayedAvailable ==
    last_sk' = IF last_sk # NoSk
                  /\ mptcp_tdm_is_available(sub'[last_sk], PathIndex(last_sk),
                                            __mptcp_tdm_next_segment'.skb, FALSE, TRUE)
               THEN last_sk
               ELSE NoSk

\* The states a subflow the environment keeps available moves between.
PinnedKinds == {"good", "good3"}

SubflowChange(Kinds) ==
    /\ \E i \in Paths, k \in Kinds :
          /\ i = pinned => k \in PinnedKinds
          /\ sub[i] # Subflow(i, k)
          /\ sub' = [sub EXCEPT ![i] = Subflow(i, k)]
    /\ ret' = Idle
    /\ UNCHANGED <<num_segments, cwnd_limited, quota, meta, reinject_queue, send_head, pinned>>
    /\ StayedAvailable

MetaChange(Metas) ==
    /\ \E m \in Metas : m # meta /\ meta' = m
    /\ ret' = Idle
    /\ UNCHANGED <<num_segments, cwnd_limited, quota, sub, reinject_queue, send_head, pinned>>
    /\ StayedAvailable

SendHeadChange(Heads) ==
    /\ \E s \in Heads : s # send_head /\ send_head' = s
    /\ ret' = Idle
    /\ UNCHANGED <<num_segments, cwnd_limited, quota, sub, meta, reinject_queue, pinned>>
    /\ StayedAvailable

ReinjectChange(Heads) ==
    /\ \E s \in Heads : s # reinject_queue /\ reinject_queue' = s
    /\ ret' = Idle
    /\ UNCHANGED <<num_segments, cwnd_limited, quota, sub, meta, send_head, pinned>>
    /\ StayedAvailable

\* The connection after its subflows were added: the scheduler's private
\* area of every subflow is zeroed.
InitOver(Rounds, Policies, Kinds, Metas, SendHeads, ReinjectHeads, Pins) ==
    /\ num_segments \in Rounds
    /\ cwnd_limited \in Policies
    /\ quota = [i \in Paths |-> 0]
    /\ pinned \in Pins
    /\ sub \in {f \in [Paths -> UNION {{Subflow(i, k) : k \in Kinds} : i \in Paths}] :
                  \A i \in Paths : /\ \E k \in Kinds : f[i] = Subflow(i, k)
                                   /\ i = pinned => \E k \in PinnedKinds : f[i] = Subflow(i, k)}
    /\ meta \in Metas
    /\ send_head \in SendHeads
    /\ reinject_queue \in ReinjectHeads
    /\ ret = Idle
    /\ last_sk = NoSk

----------------------------------------------------------------------------
(* Spec: the scheduler under every round size 1..MaxR and both settings of *)
(* cwnd_limited.                                                           *)

Meta(ims, sim, shut, dfin) ==
    [infinite_mapping_snd |-> ims, send_infinite_mapping |-> sim,
     rcv_shutdown |-> shut, dfin_path_index |-> dfin]

Rounds == 1..MaxR
Kinds == {"good", "tdn", "cwnd", "zwnd"}
Metas == {Meta(FALSE, FALSE, FALSE, 0), Meta(TRUE, FALSE, FALSE, 0)}
SendHeads == {NoSkb, Skb(MaxLen - 1, 0, {}, FALSE), Skb(MaxLen, 0, {}, FALSE)}
ReinjectHeads == {NoSkb, Skb(1, 0, {}, FALSE)}

Init == InitOver(Rounds, BOOLEAN, Kinds, Metas, SendHeads, ReinjectHeads, {0})

Next ==
    \/ NextSegment
    \/ SubflowChange(Kinds)
    \/ MetaChange(Metas)
    \/ SendHeadChange(SendHeads)
    \/ ReinjectChange(ReinjectHeads)

Spec == Init /\ [][Next]_vars

\* The same scheduler with num_segments written through its module parameter
\* (an int, mode 0644, lines 6-8, never validated) and subflows with an
\* Ethernet MSS.
WideRounds == {10000, 3000000}
WideKinds == {"good1460", "tdn"}

InitWide == InitOver(WideRounds, BOOLEAN, WideKinds, {Meta(FALSE, FALSE, FALSE, 0)},
                     SendHeads, {NoSkb}, {0})

NextWide ==
    \/ NextSegment
    \/ SubflowChange(WideKinds)
    \/ SendHeadChange(SendHeads)

SpecWide == InitWide /\ [][NextWide]_vars

\* The same scheduler with num_segments written to 0 or below through its
\* module parameter: module_param(num_segments, int, 0644) accepts every int.
ParamRounds == {-1, 0, 1}
ParamKinds == {"good", "tdn"}

InitParam == InitOver(ParamRounds, BOOLEAN, ParamKinds, {Meta(FALSE, FALSE, FALSE, 0)},
                      SendHeads, {NoSkb}, {0})

NextParam ==
    \/ NextSegment
    \/ SubflowChange(ParamKinds)
    \/ SendHeadChange(SendHeads)

SpecParam == InitParam /\ [][NextParam]_vars

\* The scheduler over subflows whose congestion window is open, full, or
\* filled by what is queued on the subflow (lines 75-89).
CwndKinds == {"good", "cwnd", "queued"}

InitCwnd == InitOver(Rounds, BOOLEAN, CwndKinds, {Meta(FALSE, FALSE, FALSE, 0)},
                     SendHeads, {NoSkb}, {0})

NextCwnd ==
    \/ NextSegment
    \/ SubflowChange(CwndKinds)
    \/ SendHeadChange(SendHeads)

SpecCwnd == InitCwnd /\ [][NextCwnd]_vars

\* The scheduler with both of its operations (get_subflow is called by the
\* MPTCP stack on its own, line 298), skbs that were already sent on some
\* subflows or carry the DATA_FIN, and a meta socket that may have received
\* the peer's DATA_FIN on one of the subflows.
GPRounds == {1}
GPKinds == {"good", "pf", "zwnd"}
GPMetas == {Meta(FALSE, FALSE, FALSE, 0)}
             \cup {Meta(FALSE, FALSE, TRUE, PathIndex(i)) : i \in Paths}
GPSendHeads == {NoSkb, Skb(1, 0, {}, FALSE)}
GPReinjectHeads ==
    {NoSkb} \cup {Skb(1, 0, mask, fin) : mask \in SUBSET {PathIndex(i) : i \in Paths},
                                         fin \in BOOLEAN}

InitGP == InitOver(GPRounds, {TRUE}, GPKinds, GPMetas, GPSendHeads, GPReinjectHeads, {0})

NextGP ==
    \/ GetSubflow
    \/ NextSegment
    \/ SubflowChange(GPKinds)
    \/ MetaChange(GPMetas)
    \/ SendHeadChange(GPSendHeads)
    \/ ReinjectChange(GPReinjectHeads)

SpecGP == InitGP /\ [][NextGP]_vars

\* The scheduler called again and again with a skb at the send head and an
\* empty reinject queue, one subflow (pinned) staying available while the
\* congestion window of the others fills and opens between the calls.
StarveKinds == {"good", "cwnd"}
StarveSendHeads == {Skb(MaxLen - 1, 0, {}, FALSE), Skb(MaxLen, 0, {}, FALSE)}

InitStarve == InitOver(Rounds, BOOLEAN, StarveKinds, {Meta(FALSE, FALSE, FALSE, 0)},
                       StarveSendHeads, {NoSkb}, Paths)

NextStarve ==
    \/ NextSegment
    \/ SubflowChange(StarveKinds)
    \/ SendHeadChange(StarveSendHeads)

\* The stack keeps calling next_segment while data is pending.
SpecStarve == InitStarve /\ [][NextStarve]_vars /\ WF_vars(NextSegment)

----------------------------------------------------------------------------
(* Vocabulary of the properties. *)

\* The skb the next call of next_segment works on.
Unit == __mptcp_tdm_next_segment.skb

\* The next call of next_segment works on a skb of the send queue.
PrimaryPending == Unit.valid /\ __mptcp_tdm_next_segment.reinject = 0

\* Subflow i passes the check of the selection scan (lines 226-227).
Eligible(i) == Available(i, Unit, FALSE, cwnd_limited)

\* Subflow i passes the check with the congestion-window test (lines 278-279).
CwndEligible(i) == Available(i, Unit, FALSE, TRUE)

\* The last call was next_segment and ran the quota selection.
QuotaCall == ret.op = "next_segment" /\ ret.scans > 0

\* The last call was next_segment and returned a skb of the send queue.
PrimaryDecision == ret.op = "next_segment" /\ ret.skb.valid /\ ret.reinject = 0

----------------------------------------------------------------------------
(* C1: with a round size above 0, a call of next_segment on a send-queue   *)
(* skb restarts the round at most once and scans the subflows at most      *)
(* twice; after a restart the second scan chooses a subflow.               *)

C1_AtMostOneReset ==
    (QuotaCall /\ num_segments > 0) =>
        /\ ret.resets <= 1
        /\ ret.scans <= 2
        /\ ret.resets = 1 => (ret.scans = 2 /\ ret.choose_sk # NoSk)

\* A call that restarted the round, scanned twice and returned a decision.
C1_Witness ==
    /\ PrimaryDecision
    /\ ret.resets = 1
    /\ ret.scans = 2

----------------------------------------------------------------------------
(* C2: over any sequence of calls, the quota of a subflow decreases only   *)
(* in a call that restarts the round, which sets the quota of the eligible *)
(* subflows to 0 (the selected subflow then gets its increment); and a     *)
(* round is restarted only in a call in which some subflow passes the      *)
(* scan's check and every one that passes has a quota of at least          *)
(* num_segments.                                                           *)

\* Before the call: some subflow is eligible and every eligible one is full.
EveryEligibleFull ==
    /\ \E i \in Paths : Eligible(i)
    /\ \A i \in Paths : Eligible(i) => quota[i] >= num_segments

C2_QuotaMonotonic ==
    [][ /\ \A i \in Paths :
             quota'[i] < quota[i] =>
                /\ ret'.op = "next_segment" /\ ret'.resets > 0
                /\ Eligible(i)
                /\ quota'[i] = IF ret'.skb.valid /\ ret'.subsk = i
                               THEN QuotaIncrement(Unit.len, sub[i].mss_cache)
                               ELSE 0
        /\ (ret'.op = "next_segment" /\ ret'.resets > 0) =>
                PrimaryPending /\ EveryEligibleFull
      ]_vars

\* After a call that restarted the round: a subflow that was restarted and
\* not selected.
C2_Witness ==
    /\ QuotaCall
    /\ ret.resets = 1
    /\ \E i \in Paths : i # ret.subsk /\ Eligible(i) /\ quota[i] = 0

----------------------------------------------------------------------------
(* C3, as claimed: a decision on a send-queue skb is never on a subflow    *)
(* whose quota was at least num_segments when it was selected; and when    *)
(* every eligible subflow is full, the call restarts them all at 0 and     *)
(* returns a decision on one of them, whose quota becomes its first        *)
(* increment while the other eligible subflows stay at 0.                  *)

C3_AsClaimed ==
    [][ (ret'.op = "next_segment" /\ PrimaryPending) =>
          /\ (ret'.skb.valid /\ ~EveryEligibleFull) => quota[ret'.subsk] < num_segments
          /\ EveryEligibleFull =>
                /\ ret'.skb.valid
                /\ Eligible(ret'.subsk)
                /\ quota'[ret'.subsk] = QuotaIncrement(Unit.len, sub[ret'.subsk].mss_cache)
                /\ \A j \in Paths : (Eligible(j) /\ j # ret'.subsk) => quota'[j] = 0
      ]_vars

(* C3, amended: as claimed, except that the subflow chosen after the       *)
(* restart may fail the congestion-window test of the final re-check       *)
(* (only with cwnd_limited off); the call then returns no decision and     *)
(* every eligible subflow, the chosen one included, is left at 0.          *)

C3_NeverOnFull ==
    [][ (ret'.op = "next_segment" /\ PrimaryPending) =>
          /\ (ret'.skb.valid /\ ~EveryEligibleFull) => quota[ret'.subsk] < num_segments
          /\ EveryEligibleFull =>
                LET s == ret'.choose_sk
                IN  /\ s # NoSk
                    /\ Eligible(s)
                    /\ \A j \in Paths : (Eligible(j) /\ j # s) => quota'[j] = 0
                    /\ IF CwndEligible(s)
                       THEN /\ ret'.skb.valid
                            /\ ret'.subsk = s
                            /\ quota'[s] = QuotaIncrement(Unit.len, sub[s].mss_cache)
                       ELSE /\ ~cwnd_limited
                            /\ ~ret'.skb.valid
                            /\ quota'[s] = 0
      ]_vars

\* After a restart: the decision is on a subflow at its first increment and
\* another eligible subflow is left at 0.
C3_Witness ==
    /\ PrimaryDecision
    /\ ret.resets = 1
    /\ quota[ret.subsk] = QuotaIncrement(ret.skb.len, sub[ret.subsk].mss_cache)
    /\ \E j \in Paths : j # ret.subsk /\ CwndEligible(j) /\ quota[j] = 0

----------------------------------------------------------------------------
(* C4, as claimed: a subflow that was selected by the last decision on a   *)
(* send-queue skb and has stayed available since (last_sk), with a skb no  *)
(* longer than its MSS: while its quota is below num_segments the next     *)
(* call on a send-queue skb selects it again and its quota rises by 1;     *)
(* once its quota reached num_segments and it is the only eligible         *)
(* subflow, the next call restarts the round and selects it at quota 1.    *)

\* The call made by this step works on a send-queue skb no longer than the
\* MSS of last_sk, the subflow selected last that stayed available.
BurstCall ==
    /\ ret'.op = "next_segment"
    /\ PrimaryPending
    /\ last_sk # NoSk
    /\ Unit.len <= sub[last_sk].mss_cache

\* The call restarts the round and selects last_sk again at quota 1.
RoundRestartsOnBurstPath ==
    (quota[last_sk] >= num_segments /\ \A j \in Paths : j # last_sk => ~Eligible(j)) =>
        /\ ret'.skb.valid
        /\ ret'.subsk = last_sk
        /\ ret'.resets >= 1
        /\ quota'[last_sk] = 1

C4_AsClaimed ==
    [][ BurstCall =>
          /\ (0 < quota[last_sk] /\ quota[last_sk] < num_segments) =>
                /\ ret'.skb.valid
                /\ ret'.subsk = last_sk
                /\ quota'[last_sk] = quota[last_sk] + 1
          /\ RoundRestartsOnBurstPath
      ]_vars

(* C4, amended: the same, provided no other eligible subflow ahead of it   *)
(* in the scan is itself being used (0 < quota < num_segments): the scan   *)
(* stops at the first such subflow.                                        *)

NoneUsedAhead ==
    \A j \in Paths :
        (j < last_sk /\ Eligible(j)) => ~(0 < quota[j] /\ quota[j] < num_segments)

C4_BurstLocality ==
    [][ BurstCall =>
          /\ (0 < quota[last_sk] /\ quota[last_sk] < num_segments /\ NoneUsedAhead) =>
                /\ ret'.skb.valid
                /\ ret'.subsk = last_sk
                /\ quota'[last_sk] = quota[last_sk] + 1
          /\ RoundRestartsOnBurstPath
      ]_vars

\* A burst carried on to the end of a round of 3: the decision is on the
\* subflow selected before, with no restart, and fills its quota while
\* another subflow is eligible and unused.
C4_Witness ==
    /\ PrimaryDecision
    /\ num_segments = 3
    /\ ret.resets = 0
    /\ ret.split = 1
    /\ ret.subsk = last_sk
    /\ quota[ret.subsk] = 3
    /\ \E j \in Paths : j # ret.subsk /\ Eligible(j) /\ quota[j] = 0

----------------------------------------------------------------------------
(* C5: on every decision on a send-queue skb the byte limit returned is    *)
(* (num_segments - q) * MSS of the selected subflow, q being the quota of  *)
(* that subflow before this call adds to it (0 after a restart).           *)

\* The quota of the subflow selected by this step, before the step adds to it.
QuotaBefore == IF ret'.resets > 0 THEN 0 ELSE quota[ret'.subsk]

C5_LimitIsProduct ==
    [][ (ret'.op = "next_segment" /\ ret'.skb.valid /\ ret'.reinject = 0) =>
            Product(num_segments - QuotaBefore, tcp_current_mss(ret'.subsk))
              = <<0, ret'.limit[1], ret'.limit[2]>>
      ]_vars

----------------------------------------------------------------------------
(* Vocabulary of the claims on get_subflow.                                *)

\* The last call was get_subflow on a skb.
GetSubflowCall == ret.op = "get_subflow" /\ ret.skb.valid

\* The subflows that pass the check get_subflow made in the last call.
Candidates == {i \in Paths : Available(i, ret.skb, ret.zero_wnd_test, TRUE)}

\* The subflow the peer's DATA_FIN was received on, if there is one.
DfinPath == {i \in Paths : PathIndex(i) = meta.dfin_path_index}

\* The skb of the last get_subflow call as the call left it in its queue.
SkbAfter == IF ret.arg = "reinject" THEN reinject_queue ELSE send_head

----------------------------------------------------------------------------
(* C6: for a skb carrying the DATA_FIN, on a meta socket that received the *)
(* peer's DATA_FIN (RCV_SHUTDOWN) on a known subflow, get_subflow returns  *)
(* that subflow or none, never another subflow.                            *)

C6_DataFinOnSameSubflow ==
    (GetSubflowCall /\ ret.skb.data_fin /\ meta.rcv_shutdown /\ DfinPath # {}) =>
        (ret.subsk = NoSk \/ ret.subsk \in DfinPath)

----------------------------------------------------------------------------
(* C7: when no subflow passes the check, get_subflow returns none; and     *)
(* next_segment never returns a skb of the reinject queue with a subflow   *)
(* that fails the check.                                                   *)

C7_NoneWhenNoneAvailable ==
    /\ (ret.op = "get_subflow" /\ Candidates = {}) => ret.subsk = NoSk
    /\ (ret.op = "next_segment" /\ ret.skb.valid /\ ret.reinject = 1) =>
           Available(ret.subsk, ret.skb, FALSE, TRUE)

----------------------------------------------------------------------------
(* C8: for a skb without the DATA_FIN, get_subflow returns an available    *)
(* subflow outside the skb's path_mask whenever there is one, and leaves   *)
(* the path_mask alone; the path_mask is cleared only when some subflow is *)
(* available and every available subflow is in it, and then an available   *)
(* subflow of the path_mask is returned.                                   *)

C8_PathMask ==
    (GetSubflowCall /\ ~ret.skb.data_fin) =>
        LET fresh == {i \in Candidates : PathIndex(i) \notin ret.skb.path_mask}
        IN  /\ fresh # {} => (ret.subsk \in fresh /\ SkbAfter.path_mask = ret.skb.path_mask)
            /\ SkbAfter.path_mask # ret.skb.path_mask =>
                  /\ Candidates # {}
                  /\ fresh = {}
                  /\ SkbAfter.path_mask = {}
                  /\ ret.subsk \in Candidates
                  /\ PathIndex(ret.subsk) \in ret.skb.path_mask

\* A skb sent on subflow 1 only goes to another subflow with its path_mask
\* kept, while subflow 1 is available as well.
C8_Witness ==
    /\ GetSubflowCall
    /\ ~ret.skb.data_fin
    /\ ret.skb.path_mask = {PathIndex(1)}
    /\ Candidates = Paths
    /\ ret.subsk \in Paths \ {1}
    /\ SkbAfter.path_mask = {PathIndex(1)}

----------------------------------------------------------------------------
(* C9, as claimed: when next_segment returns no skb, either both queues    *)
(* are empty or no subflow passes the check of the selection scan (the     *)
(* congestion-window test applied only with cwnd_limited set).             *)

\* The last call was next_segment and returned NULL.
ReturnedNone == ret.op = "next_segment" /\ ~ret.skb.valid

NoneEligible == \A i \in Paths : ~Eligible(i)

C9_AsClaimed ==
    ReturnedNone => ((~send_head.valid /\ ~reinject_queue.valid) \/ NoneEligible)

(* C9, amended: when next_segment returns no skb, either the queue it      *)
(* reads has no head (in fallback mode only the send queue is read), or no *)
(* subflow passes the check of the selection scan, or cwnd_limited is off  *)
(* and the chosen subflow fails the congestion-window test of the last     *)
(* check.                                                                  *)

C9_NoneMeans ==
    ReturnedNone =>
        \/ ~Unit.valid
        \/ NoneEligible
        \/ /\ ~cwnd_limited
           /\ ret.choose_sk # NoSk
           /\ ~CwndEligible(ret.choose_sk)

\* NULL returned with a skb at the send head, cwnd_limited set and no
\* subflow passing the check of the scan.
C9_Witness ==
    /\ ReturnedNone
    /\ cwnd_limited
    /\ Unit.valid
    /\ ret.scans = 1
    /\ ret.iter = 0
    /\ NoneEligible

----------------------------------------------------------------------------
(* C10, as claimed: with num_segments > 0, the reinject queue empty and a  *)
(* skb at the send head on every call, a subflow that passes the check on  *)
(* every call is selected by next_segment again and again, whatever the    *)
(* other subflows do between the calls.                                    *)

\* The last call was next_segment and selected the pinned subflow.
PinnedDecision == PrimaryDecision /\ ret.subsk = pinned

C10_AsClaimed == []<>PinnedDecision

(* C10, amended: the same with cwnd_limited set.  With cwnd_limited off    *)
(* the scan may choose a subflow whose congestion window is full, and the  *)
(* call returns NULL for as long as that window stays full.                *)

C10_NoStarvation == []<>(cwnd_limited => PinnedDecision)

\* The pinned subflow is selected while another available subflow has used
\* up its quota.
C10_Witness ==
    /\ PinnedDecision
    /\ cwnd_limited
    /\ \E j \in Paths : j # pinned /\ Eligible(j) /\ quota[j] >= num_segments

----------------------------------------------------------------------------
(* C11, as claimed: a call of next_segment made in fallback mode changes   *)
(* no subflow's quota.                                                     *)

Fallback == meta.infinite_mapping_snd \/ meta.send_infinite_mapping

----------------------------------------------------------------------------
(* C12: next_segment never runs with num_segments <= 0, such a value being *)
(* rejected when the parameter is set.                                     *)

C12_RoundSizePositive ==
    ret.op = "next_segment" => num_segments > 0

----------------------------------------------------------------------------
(* C13, as claimed: next_segment never returns a send-queue skb with a     *)
(* subflow whose write_seq has reached the end of the send window.         *)

\* Subflow i fails the zero-window test of line 92.
ZeroWindow(i) == ~before(sub[i].write_seq, tcp_wnd_end(sub[i]))

C13_AsClaimed == PrimaryDecision => ~ZeroWindow(ret.subsk)

(* C13, amended: the check made before returning (lines 278-279) is made   *)
(* with the congestion-window test and without the zero-window test: a     *)
(* call that chose a subflow returns the skb exactly when that subflow     *)
(* passes that check, its send window being full or not.                   *)

C13_LastCheck ==
    (QuotaCall /\ ret.choose_sk # NoSk) =>
        (ret.skb.valid <=> Available(ret.choose_sk, Unit, FALSE, TRUE))

\* A decision on a subflow whose send window is full.
C13_Witness ==
    /\ PrimaryDecision
    /\ ZeroWindow(ret.subsk)
    /\ Available(ret.subsk, ret.skb, FALSE, TRUE)

----------------------------------------------------------------------------
(* C14, as claimed: a subflow whose curr_tdn differs from path_index - 1   *)
(* is available whenever it passes every other test of                     *)
(* mptcp_tdm_is_available, in the calls next_segment makes.                *)

\* curr_tdn of subflow i is not the one of its path index (line 33).
TdnMismatch(i) == sub[i].curr_tdn # PathIndex(i) - 1

\* Subflow i passes every test of the check but the one of line 33.
PassesOtherTests(i, zero_wnd_test, cwnd_test) ==
    mptcp_tdm_is_available([sub[i] EXCEPT !.curr_tdn = PathIndex(i) - 1],
                           PathIndex(i), Unit, zero_wnd_test, cwnd_test)

----------------------------------------------------------------------------
(* C15, as claimed: whatever the calls made and the changes of the         *)
(* subflows between them, at most one subflow has 0 < quota < num_segments.*)

\* The subflows that are being used (line 232).
PartlyUsed == {i \in Paths : 0 < quota[i] /\ quota[i] < num_segments}

C15_AsClaimed == Cardinality(PartlyUsed) <= 1

(* C15, amended: several subflows can be in use at once, when one in use   *)
(* stops being available and another one is started.  What holds is that   *)
(* next_segment starts on an unused subflow (quota 0, restarted or not)    *)
(* only when no subflow that passes the check of the scan is in use.       *)

C15_NoSecondBurst ==
    [][ (ret'.op = "next_segment" /\ ret'.skb.valid /\ ret'.reinject = 0
            /\ QuotaBefore = 0) =>
          \A j \in PartlyUsed : ~Eligible(j)
      ]_vars

\* A subflow is started while another one, not available, is in use: two
\* subflows are in use.
C15_Witness ==
    /\ PrimaryDecision
    /\ ret.split = num_segments
    /\ ret.subsk \in PartlyUsed
    /\ \E j \in PartlyUsed : j # ret.subsk /\ ~Eligible(j)

----------------------------------------------------------------------------
(* C16: the scan for a send-queue skb chooses the first subflow, in list   *)
(* order, that passes the check and is in use (0 < quota < num_segments);  *)
(* if there is none, the last one that passes the check and has quota 0,   *)
(* after the restart when all of them were full; never a subflow that      *)
(* fails the check.                                                        *)

\* The subflows that pass the check of the scan and have quota 0.
EligibleUnused == {i \in Paths : Eligible(i) /\ quota[i] = 0}

\* The subflows that pass the check of the scan and are in use.
EligibleInUse == {i \in PartlyUsed : Eligible(i)}

C16_ScanOrder ==
    [][ (ret'.op = "next_segment" /\ ret'.scans > 0) =>
          LET chosen == ret'.choose_sk
          IN  /\ chosen # NoSk => Eligible(chosen)
              /\ (\A i \in Paths : ~Eligible(i)) => chosen = NoSk
              /\ EligibleInUse # {} =>
                    /\ chosen \in EligibleInUse
                    /\ \A j \in EligibleInUse : chosen <= j
                    /\ ret'.split = num_segments - quota[chosen]
                    /\ ret'.resets = 0
              /\ (EligibleInUse = {} /\ EligibleUnused # {} /\ ret'.resets = 0) =>
                    /\ chosen \in EligibleUnused
                    /\ \A j \in EligibleUnused : j <= chosen
              /\ ret'.resets > 0 =>
                    /\ EveryEligibleFull
                    /\ \A j \in Paths : Eligible(j) => j <= chosen
              /\ (EveryEligibleFull /\ \E i \in Paths : Eligible(i)) => ret'.resets > 0
      ]_vars

\* The subflow in use is selected although an unused one that passes the
\* check comes after it in the list.
C16_Witness ==
    /\ PrimaryDecision
    /\ ret.split < num_segments
    /\ \E j \in Paths : j > ret.subsk /\ Eligible(j) /\ quota[j] = 0

----------------------------------------------------------------------------
(* C17: outside fallback mode, with a skb in the reinject queue,           *)
(* next_segment returns that skb with *reinject = 1, or nothing; it leaves *)
(* every quota and the send queue alone.  A send-queue skb is returned     *)
(* only with the reinject queue empty or in fallback mode.                 *)

C17_ReinjectFirst ==
    [][ ret'.op = "next_segment" =>
          /\ (~Fallback /\ reinject_queue.valid) =>
                /\ ret'.reinject = 1
                /\ quota' = quota
                /\ send_head' = send_head
                /\ ret'.skb.valid =>
                      /\ ret'.skb = reinject_queue'
                      /\ [ret'.skb EXCEPT !.path_mask = reinject_queue.path_mask]
                           = reinject_queue
          /\ (ret'.skb.valid /\ ret'.reinject = 0) =>
                /\ Fallback \/ ~reinject_queue.valid
                /\ ret'.skb = send_head
      ]_vars

\* The skb of the reinject queue is returned while a skb waits at the send
\* head, and no quota was touched since the start.
C17_Witness ==
    /\ ret.op = "next_segment"
    /\ ret.reinject = 1
    /\ ret.skb.valid
    /\ ret.skb = reinject_queue
    /\ send_head.valid
    /\ ~Fallback
    /\ \A i \in Paths : quota[i] = 0

----------------------------------------------------------------------------
(* C18: a decision on a send-queue skb raises the quota of the selected    *)
(* subflow only, by ceil(len / mss) for a skb longer than the MSS and by 1 *)
(* otherwise; every quota stays between 0 and                              *)
(* num_segments - 1 + ceil(MaxLen / mss); and a call, restart included,    *)
(* leaves the quota of a subflow that fails the check as it is.            *)

C18_QuotaCharge ==
    [][ ret'.op = "next_segment" =>
          /\ (ret'.skb.valid /\ ret'.reinject = 0) =>
                LET mss == sub[ret'.subsk].mss_cache
                    len == ret'.skb.len
                IN  /\ quota'[ret'.subsk] = QuotaBefore
                          + (IF len > mss THEN (len + mss - 1) \div mss ELSE 1)
                    /\ \A j \in Paths \ {ret'.subsk} : quota'[j] <= quota[j]
          /\ \A i \in Paths : ~Eligible(i) => quota'[i] = quota[i]
          /\ \A i \in Paths :
                /\ 0 <= quota'[i]
                /\ quota'[i] <= num_segments - 1
                      + (MaxLen + sub[i].mss_cache - 1) \div sub[i].mss_cache
      ]_vars

----------------------------------------------------------------------------
(* C19: with cwnd_limited set, a call of next_segment that returns no skb  *)
(* changes no quota; a call that restarts the round returns a skb.         *)

C19_NoneLeavesQuota ==
    [][ (cwnd_limited /\ ret'.op = "next_segment") =>
          /\ ~ret'.skb.valid => (quota' = quota /\ ret'.resets = 0)
          /\ ret'.resets > 0 => ret'.skb.valid
      ]_vars

\* NULL is returned for a send-queue skb while a subflow holds a full
\* quota, which the call left as it was.
C19_Witness ==
    /\ ReturnedNone
    /\ cwnd_limited
    /\ ret.scans = 1
    /\ \E i \in Paths : quota[i] >= num_segments

----------------------------------------------------------------------------
(* C20: whatever cwnd_limited is, next_segment never returns a send-queue  *)
(* skb with a subflow that has no room in its congestion window, or whose  *)
(* queued bytes exceed the room left in it.                                *)

C20_CwndRespected ==
    PrimaryDecision =>
        LET tp == sub[ret.subsk]
        IN  /\ tp.packets_in_flight < tp.snd_cwnd
            /\ tp.write_seq - tp.snd_nxt
                  <= (tp.snd_cwnd - tp.packets_in_flight) * tp.mss_cache

\* With cwnd_limited off, a subflow with room is selected while a subflow
\* with a full window passes the check of the scan.
C20_Witness ==
    /\ PrimaryDecision
    /\ ~cwnd_limited
    /\ \E j \in Paths : Eligible(j) /\ ~CwndEligible(j)

====
